---- MODULE Spec2Model ----
(***************************************************************************)
(* The command router (app/EventMain.py, DiscordClient) and the sqlite    *)
(* command store (app/DatabaseConnector.py, BotDatabase) of the bot.      *)
(*                                                                         *)
(* A Python str is a sequence of one-character strings, so that split,    *)
(* lower, slicing and strip are computed as Python computes them.  A      *)
(* Discord snowflake id is a tagged value: discord.py delivers ids as     *)
(* Python ints, the source also writes one as a str literal.              *)
(***************************************************************************)
EXTENDS Integers, Sequences, FiniteSets, TLC

(***************************************************************************)
(* Bounds of the model.                                                    *)
(***************************************************************************)
\* largest rowid a table of the store may reach
MaxRowId == 2
\* longest message.mentions list
MaxMentions == 2
\* longest message.role_mentions list
MaxRoleMentions == 2
\* the most handler tasks suspended at once
MaxTasks == 2

(***************************************************************************)
(* String literals of the source.                                          *)
(***************************************************************************)
\* '!!'
prefix ==
  <<"!", "!">>
\* 'add'
S_add ==
  <<"a", "d", "d">>
\* 'remove'
S_remove ==
  <<"r", "e", "m", "o", "v", "e">>
\* 'commands'
S_commands ==
  <<"c", "o", "m", "m", "a", "n", "d", "s">>
\* 'textcommand'
S_textcommand ==
  <<"t", "e", "x", "t", "c", "o", "m", "m", "a", "n", "d">>
\* 'rolecommand'
S_rolecommand ==
  <<"r", "o", "l", "e", "c", "o", "m", "m", "a", "n", "d">>
\* 'su'
S_su ==
  <<"s", "u">>
\* 'admin'
S_admin ==
  <<"a", "d", "m", "i", "n">>
\* 'superuser'
S_superuser ==
  <<"s", "u", "p", "e", "r", "u", "s", "e", "r">>
\* 'Invalid command!'
T_InvalidCommand ==
  <<"I", "n", "v", "a", "l", "i", "d", " ", "c", "o", "m", "m", "a", "n", "d", "!">>
\* 'Command added!'
T_CommandAdded ==
  <<"C", "o", "m", "m", "a", "n", "d", " ", "a", "d", "d", "e", "d", "!">>
\* 'A command with that name already exists!'
T_CommandExists ==
  <<"A", " ", "c", "o", "m", "m", "a", "n", "d", " ", "w", "i", "t", "h", " ", "t", "h", "a", "t", " ", "n", "a", "m", "e", " ", "a", "l", "r", "e", "a", "d", "y", " ", "e", "x", "i", "s", "t", "s", "!">>
\* 'Command removed!'
T_CommandRemoved ==
  <<"C", "o", "m", "m", "a", "n", "d", " ", "r", "e", "m", "o", "v", "e", "d", "!">>
\* 'A role command with that name already exists!'
T_RoleCommandExists ==
  <<"A", " ", "r", "o", "l", "e", " ", "c", "o", "m", "m", "a", "n", "d", " ", "w", "i", "t", "h", " ", "t", "h", "a", "t", " ", "n", "a", "m", "e", " ", "a", "l", "r", "e", "a", "d", "y", " ", "e", "x", "i", "s", "t", "s", "!">>
\* 'User added as admin!'
T_UserAdded ==
  <<"U", "s", "e", "r", " ", "a", "d", "d", "e", "d", " ", "a", "s", " ", "a", "d", "m", "i", "n", "!">>
\* 'That user is already an admin!'
T_AlreadyAdmin ==
  <<"T", "h", "a", "t", " ", "u", "s", "e", "r", " ", "i", "s", " ", "a", "l", "r", "e", "a", "d", "y", " ", "a", "n", " ", "a", "d", "m", "i", "n", "!">>
\* 'User removed from admin!'
T_UserRemoved ==
  <<"U", "s", "e", "r", " ", "r", "e", "m", "o", "v", "e", "d", " ", "f", "r", "o", "m", " ", "a", "d", "m", "i", "n", "!">>
\* 'Roles granted!'
T_RolesGranted ==
  <<"R", "o", "l", "e", "s", " ", "g", "r", "a", "n", "t", "e", "d", "!">>
\* '**Available Commands:**\n\n'
L_Header ==
  <<"*", "*", "A", "v", "a", "i", "l", "a", "b", "l", "e", " ", "C", "o", "m", "m", "a", "n", "d", "s", ":", "*", "*", "\n", "\n">>
\* '*Admin Commands:*\n> '
L_AdminHeader ==
  <<"*", "A", "d", "m", "i", "n", " ", "C", "o", "m", "m", "a", "n", "d", "s", ":", "*", "\n", ">", " ">>
\* '\n*General Commands*:\n> '
L_GeneralHeader ==
  <<"\n", "*", "G", "e", "n", "e", "r", "a", "l", " ", "C", "o", "m", "m", "a", "n", "d", "s", "*", ":", "\n", ">", " ">>
\* '\n> '
L_Sep ==
  <<"\n", ">", " ">>
\* '\n'
L_Newline ==
  <<"\n">>

\* EventMain.py:26  self.admin_commands = ['add', 'remove']
admin_commands == <<S_add, S_remove>>
\* EventMain.py:27  self.static_commands = ['commands']
static_commands == <<S_commands>>

(***************************************************************************)
(* Python built-ins used by the source.                                    *)
(***************************************************************************)
Range(seq) == {seq[i] : i \in 1..Len(seq)}

\* x in list
py_in(x, list) == \E i \in 1..Len(list) : list[i] = x

\* code point of a character (only the order matters: list.sort compares
\* strings by code point)
ord(c) ==
  CASE c = " " -> 32 [] c = "!" -> 33 [] c = "\"" -> 34
    [] c = "G" -> 71 [] c = "H" -> 72 [] c = "V" -> 86
    [] c = "a" -> 97 [] c = "b" -> 98 [] c = "c" -> 99 [] c = "d" -> 100
    [] c = "e" -> 101 [] c = "g" -> 103 [] c = "h" -> 104 [] c = "i" -> 105 [] c = "l" -> 108
    [] c = "m" -> 109 [] c = "n" -> 110 [] c = "o" -> 111 [] c = "p" -> 112
    [] c = "r" -> 114 [] c = "s" -> 115 [] c = "t" -> 116 [] c = "u" -> 117
    [] c = "v" -> 118 [] c = "x" -> 120 [] c = "y" -> 121
    [] OTHER -> 0

\* str.lower() on one character
lower_char(c) ==
  CASE c = "A" -> "a" [] c = "C" -> "c" [] c = "D" -> "d" [] c = "E" -> "e"
    [] c = "G" -> "g" [] c = "H" -> "h" [] c = "I" -> "i" [] c = "M" -> "m"
    [] c = "O" -> "o" [] c = "R" -> "r" [] c = "S" -> "s" [] c = "T" -> "t"
    [] c = "V" -> "v"
    [] OTHER -> c

\* s.lower()
str_lower(s) == [i \in 1..Len(s) |-> lower_char(s[i])]

\* s.startswith(p)
startswith(s, p) == Len(s) >= Len(p) /\ SubSeq(s, 1, Len(p)) = p

\* s[n:]  (n >= 0)
slice_from(s, n) == SubSeq(s, n + 1, Len(s))

\* s[-n:]  (n > 0)
slice_last(s, n) == IF Len(s) <= n THEN s ELSE SubSeq(s, Len(s) - n + 1, Len(s))

\* s[:-n]  (n > 0)
slice_drop_last(s, n) == IF Len(s) <= n THEN <<>> ELSE SubSeq(s, 1, Len(s) - n)

\* s.split(sep, maxsplit) for a one-character sep
RECURSIVE str_split(_, _, _)
str_split(s, sep, maxsplit) ==
  IF maxsplit = 0 \/ ~(\E i \in 1..Len(s) : s[i] = sep)
  THEN <<s>>
  ELSE LET i == CHOOSE k \in 1..Len(s) :
                  s[k] = sep /\ \A j \in 1..(k - 1) : s[j] # sep
       IN  <<SubSeq(s, 1, i - 1)>> \o str_split(SubSeq(s, i + 1, Len(s)), sep, maxsplit - 1)

\* s.strip(ch): every leading and every trailing ch is removed
RECURSIVE str_lstrip(_, _)
str_lstrip(s, ch) ==
  IF s # <<>> /\ Head(s) = ch THEN str_lstrip(Tail(s), ch) ELSE s

RECURSIVE str_rstrip(_, _)
str_rstrip(s, ch) ==
  IF s # <<>> /\ s[Len(s)] = ch THEN str_rstrip(SubSeq(s, 1, Len(s) - 1), ch) ELSE s

str_strip(s, ch) == str_rstrip(str_lstrip(s, ch), ch)

\* sep.join(list)
RECURSIVE str_join(_, _)
str_join(sep, list) ==
  IF list = <<>> THEN <<>>
  ELSE IF Len(list) = 1 THEN list[1]
  ELSE list[1] \o sep \o str_join(sep, Tail(list))

\* a < b for two str values (lexicographic by code point)
RECURSIVE str_less(_, _)
str_less(a, b) ==
  IF b = <<>> THEN FALSE
  ELSE IF a = <<>> THEN TRUE
  ELSE IF ord(Head(a)) # ord(Head(b)) THEN ord(Head(a)) < ord(Head(b))
  ELSE str_less(Tail(a), Tail(b))

\* list.sort() of a list of str (equal elements stay adjacent)
RECURSIVE list_insert(_, _)
list_insert(x, sorted) ==
  IF sorted = <<>> THEN <<x>>
  ELSE IF str_less(x, Head(sorted)) THEN <<x>> \o sorted
  ELSE <<Head(sorted)>> \o list_insert(x, Tail(sorted))

RECURSIVE list_sort(_)
list_sort(list) ==
  IF list = <<>> THEN <<>> ELSE list_insert(Head(list), list_sort(Tail(list)))

\* list(dict.fromkeys(list)): the first occurrence of every element, in order
RECURSIVE list_dedup(_)
list_dedup(list) ==
  IF list = <<>> THEN <<>>
  ELSE LET front == list_dedup(SubSeq(list, 1, Len(list) - 1))
           x == list[Len(list)]
       IN  IF py_in(x, front) THEN front ELSE Append(front, x)


(***************************************************************************)
(* Values.                                                                 *)
(***************************************************************************)
\* a Python int holding a snowflake: what discord.py delivers in .id (the
\* source uses message.guild and Member.add_roles, the API whose ids are ints)
IntId(digits) == [type |-> "int", value |-> digits]
\* a Python str holding the digits of a snowflake
StrId(digits) == [type |-> "str", value |-> digits]

\* The value sqlite stores in a column declared `integer` (INTEGER affinity):
\* a str that is a well-formed integer is converted to that integer.
integer_affinity(v) == [type |-> "int", value |-> v.value]

\* Python ==; an int never equals a str
py_eq(a, b) == a.type = b.type /\ a.value = b.value

\* bool(x) stored in an integer column
bool_to_int(b) == IF b THEN 1 ELSE 0

\* the literal '170045009318510593' of the source
BootstrapLiteral == StrId("170045009318510593")

\* exception types; NoError is normal completion
NoError == "none"
IntegrityError == "IntegrityError"
ValueError == "ValueError"
IndexError == "IndexError"
TypeError == "TypeError"

\* Python None / a returned value
None == [none |-> TRUE, value |-> <<>>]
Some(v) == [none |-> FALSE, value |-> v]

(***************************************************************************)
(* The store: the four tables of DatabaseConnector.py.  The rowid columns *)
(* of admins and text_commands are read by no statement of the source and  *)
(* are left out; role_commands.id is the key roles refer to and roles.id  *)
(* fixes the order of find_role_command's result.                          *)
(***************************************************************************)
VARIABLES
  admins,         \* admins.user_id: a set of ids (UNIQUE)
  text_commands,  \* rows [command_name, response, admin]
  role_commands,  \* rows [id, command_name]
  roles,          \* rows [id, role_id, role_command_id]
  message,        \* the message on_message handled last (NoMessage: none yet)
  sent,           \* what that handler sent to message.channel (<<>> or one text)
  raised,         \* the exception that handler ended with, or NoError
  granted,        \* the role ids that handler passed to message.author.add_roles
  tasks           \* the handler tasks suspended at an await, oldest first

store == <<admins, text_commands, role_commands, roles>>
vars == <<admins, text_commands, role_commands, roles, message, sent, raised, granted, tasks>>

\* the database file as one value
Db == [admins |-> admins, text_commands |-> text_commands,
       role_commands |-> role_commands, roles |-> roles]

EmptyDb == [admins |-> {}, text_commands |-> {}, role_commands |-> {}, roles |-> {}]

\* result of a BotDatabase method: the file afterwards, the exception, the value
DbResult(db, err, ret) == [db |-> db, err |-> err, ret |-> ret]

\* db_conn.__exit__: commit and close, whatever exc_type is.  `before` is the
\* file when the connection was opened, `current` the work of the statements
\* that succeeded.
db_conn_exit(before, current, exc_type) == current

\* rowid given to a row inserted into an `integer PRIMARY KEY` table
next_rowid(rows) ==
  IF rows = {} THEN 1
  ELSE (CHOOSE m \in {r.id : r \in rows} : \A r \in rows : r.id <= m) + 1

\* the rows of a table with an id column, in rowid order
RECURSIVE rows_by_id(_)
rows_by_id(rows) ==
  IF rows = {} THEN <<>>
  ELSE LET first == CHOOSE r \in rows : \A q \in rows : r.id <= q.id
       IN  <<first>> \o rows_by_id(rows \ {first})

\* the rows of a table in some order (for a result whose order no caller reads)
RECURSIVE rows_any_order(_)
rows_any_order(rows) ==
  IF rows = {} THEN <<>>
  ELSE LET first == CHOOSE r \in rows : TRUE
       IN  <<first>> \o rows_any_order(rows \ {first})

\* BotDatabase.__init__: CREATE TABLE IF NOT EXISTS ..., INSERT OR IGNORE
db_init(db) ==
  LET cur == [db EXCEPT !.admins = @ \cup {integer_affinity(BootstrapLiteral)}]
  IN  db_conn_exit(db, cur, NoError)

add_admin(db, user_id) ==
  LET v == integer_affinity(user_id)
      err == IF v \in db.admins THEN IntegrityError ELSE NoError
      cur == IF err = NoError THEN [db EXCEPT !.admins = @ \cup {v}] ELSE db
  IN  DbResult(db_conn_exit(db, cur, err), err, None)

add_text_command(db, command_name, response, admin) ==
  LET row == [command_name |-> command_name, response |-> response,
              admin |-> bool_to_int(admin)]
      err == IF \E r \in db.text_commands : r.command_name = command_name
             THEN IntegrityError ELSE NoError
      cur == IF err = NoError THEN [db EXCEPT !.text_commands = @ \cup {row}] ELSE db
  IN  DbResult(db_conn_exit(db, cur, err), err, None)

delete_admin(db, user_id) ==
  LET cur == [db EXCEPT !.admins = @ \ {integer_affinity(user_id)}]
  IN  DbResult(db_conn_exit(db, cur, NoError), NoError, None)

delete_text_command(db, command_name) ==
  LET cur == [db EXCEPT !.text_commands = {r \in @ : r.command_name # command_name}]
  IN  DbResult(db_conn_exit(db, cur, NoError), NoError, None)

\* get_all_text_commands without the `WHERE admin = 0` of line 122
get_all_text_commands_unfiltered(db, include_admin) ==
  DbResult(db_conn_exit(db, db, NoError), NoError, rows_any_order(db.text_commands))

get_all_text_commands(db, include_admin) ==
  LET rows == IF include_admin THEN db.text_commands
              ELSE {r \in db.text_commands : r.admin = 0}
  IN  DbResult(db_conn_exit(db, db, NoError), NoError, rows_any_order(rows))

\* find_text_command without the `AND admin=0` of line 138
find_text_command_unfiltered(db, name, admin) ==
  LET rows == {r \in db.text_commands : r.command_name = name}
      row == IF rows = {} THEN None
             ELSE LET r == CHOOSE r \in rows : TRUE
                  IN  Some([command_name |-> r.command_name, response |-> r.response])
  IN  DbResult(db_conn_exit(db, db, NoError), NoError, row)

find_text_command(db, name, admin) ==
  LET rows == {r \in db.text_commands :
                 r.command_name = name /\ (admin \/ r.admin = 0)}
      row == IF rows = {} THEN None
             ELSE LET r == CHOOSE r \in rows : TRUE
                  IN  Some([command_name |-> r.command_name, response |-> r.response])
  IN  DbResult(db_conn_exit(db, db, NoError), NoError, row)

find_role_command(db, command_name) ==
  LET found == {rc \in db.role_commands : rc.command_name = command_name}
  IN  IF found = {}
      THEN \* c.fetchone() is None: the unpacking raises TypeError, caught
           DbResult(db_conn_exit(db, db, NoError), NoError, None)
      ELSE LET role_command_id == (CHOOSE rc \in found : TRUE).id
               role_list == rows_by_id({r \in db.roles : r.role_command_id = role_command_id})
           IN  DbResult(db_conn_exit(db, db, NoError), NoError,
                        Some([i \in 1..Len(role_list) |-> role_list[i].role_id]))

\* the loop of add_role_command: one INSERT INTO roles per role id, stopped by
\* the first one that violates UNIQUE(role_id)
RECURSIVE insert_roles(_, _, _)
insert_roles(db, row_id, role_list) ==
  IF role_list = <<>> THEN DbResult(db, NoError, None)
  ELSE IF \E r \in db.roles : r.role_id = Head(role_list)
       THEN DbResult(db, IntegrityError, None)
       ELSE insert_roles(
              [db EXCEPT !.roles = @ \cup {[id |-> next_rowid(db.roles),
                                             role_id |-> Head(role_list),
                                             role_command_id |-> row_id]}],
              row_id, Tail(role_list))

add_role_command(db, command_name, role_list) ==
  IF \E rc \in db.role_commands : rc.command_name = command_name
  THEN DbResult(db_conn_exit(db, db, IntegrityError), IntegrityError, None)
  ELSE LET row_id == next_rowid(db.role_commands)
           inserted == [db EXCEPT !.role_commands =
                          @ \cup {[id |-> row_id, command_name |-> command_name]}]
           loop == insert_roles(inserted, row_id, role_list)
       IN  DbResult(db_conn_exit(db, loop.db, loop.err), loop.err, None)

\* delete_role_command without the DELETE FROM roles of line 177
delete_role_command_keeping_roles(db, command_name) ==
  LET found == {rc \in db.role_commands : rc.command_name = command_name}
  IN  IF found = {}
      THEN DbResult(db_conn_exit(db, db, TypeError), TypeError, None)
      ELSE LET cur == [db EXCEPT !.role_commands =
                         {rc \in @ : rc.command_name # command_name}]
           IN  DbResult(db_conn_exit(db, cur, NoError), NoError, None)

delete_role_command(db, command_name) ==
  LET found == {rc \in db.role_commands : rc.command_name = command_name}
  IN  IF found = {}
      THEN \* c.fetchone()[0] on None
           DbResult(db_conn_exit(db, db, TypeError), TypeError, None)
      ELSE LET row_id == (CHOOSE rc \in found : TRUE).id
               no_roles == [db EXCEPT !.roles = {r \in @ : r.role_command_id # row_id}]
               cur == [no_roles EXCEPT !.role_commands =
                         {rc \in @ : rc.command_name # command_name}]
           IN  DbResult(db_conn_exit(db, cur, NoError), NoError, None)

get_all_role_commands(db) ==
  DbResult(db_conn_exit(db, db, NoError), NoError, rows_by_id(db.role_commands))

is_user_admin(db, user_id) ==
  DbResult(db_conn_exit(db, db, NoError), NoError, integer_affinity(user_id) \in db.admins)


(***************************************************************************)
(* The router: DiscordClient of EventMain.py.                              *)
(***************************************************************************)
\* what one run of a handler did: the file afterwards, the texts passed to
\* message.channel.send, the exception it ended with, the role ids passed to
\* message.author.add_roles
Outcome(db, out, exc, grants) ==
  [db |-> db, sent |-> out, raised |-> exc, granted |-> grants]

\* self.user, the bot's own account
BotUser == IntId("900")

\* for member in mentions: self.db.add_admin(member.id)
RECURSIVE _add_admins(_, _)
_add_admins(db, mentions) ==
  IF mentions = <<>> THEN DbResult(db, NoError, None)
  ELSE LET r == add_admin(db, Head(mentions))
       IN  IF r.err # NoError THEN r ELSE _add_admins(r.db, Tail(mentions))

_delete_admin(db, user_id) == delete_admin(db, user_id)

\* for member in message.mentions: self._delete_admin(member.id)
RECURSIVE delete_mentioned_admins(_, _)
delete_mentioned_admins(db, mentions) ==
  IF mentions = <<>> THEN DbResult(db, NoError, None)
  ELSE delete_mentioned_admins(_delete_admin(db, Head(mentions)).db, Tail(mentions))

_add_text_command(db, content) ==
  LET parts == str_split(content, " ", 3)
  IN  IF Len(parts) # 4
      THEN \* _, _, command_name, response = ... cannot unpack
           DbResult(db, ValueError, None)
      ELSE LET command_name == parts[3]
               response == parts[4]
               admin_only == slice_last(response, 5) = S_admin
               stripped == IF admin_only THEN slice_drop_last(response, 6) ELSE response
           IN  IF py_in(command_name, admin_commands) \/ py_in(command_name, static_commands)
               THEN DbResult(db, NoError, Some(FALSE))
               ELSE add_text_command(db, command_name, str_strip(stripped, "\""), admin_only)

_delete_text_command(db, content) ==
  LET parts == str_split(content, " ", 3)
  IN  IF Len(parts) # 3
      THEN \* _, _, command_name = ... cannot unpack
           DbResult(db, ValueError, None)
      ELSE delete_text_command(db, parts[3])

_list_commands(db, is_admin) ==
  LET admin_part == IF is_admin
                    THEN L_AdminHeader \o str_join(L_Sep, admin_commands) \o L_Newline
                    ELSE <<>>
      general_part == L_GeneralHeader \o str_join(L_Sep, static_commands) \o L_Sep
      text_rows == get_all_text_commands(db, is_admin).ret
      text_names == [i \in 1..Len(text_rows) |-> text_rows[i].command_name]
      role_rows == get_all_role_commands(db).ret
      role_names == [i \in 1..Len(role_rows) |-> role_rows[i].command_name]
      db_commands == list_sort(text_names \o role_names)
  IN  L_Header \o admin_part \o general_part \o str_join(L_Sep, list_dedup(db_commands))

_add_role_command(db, content, role_list) ==
  LET parts == str_split(content, " ", 3)
  IN  IF Len(parts) < 3
      THEN \* _, _, command_name, *_ = ... cannot unpack
           DbResult(db, ValueError, None)
      ELSE add_role_command(db, parts[3], role_list)

_delete_role_command(db, content) ==
  LET parts == str_split(content, " ", 3)
  IN  IF Len(parts) < 3
      THEN DbResult(db, ValueError, None)
      ELSE delete_role_command(db, parts[3])

\* the test of line 98 with != for ==
author_is_not_bootstrap(author_id) == ~py_eq(author_id, BootstrapLiteral)

\* the branch `if message.author.id == '170045009318510593'` of remove admin
author_is_bootstrap(author_id) == py_eq(author_id, BootstrapLiteral)

\* a method's result turned into the handler's: an exception the handler does
\* not catch ends it before message.channel.send
Finish(r, caught, ok_text, caught_text) ==
  IF r.err = NoError THEN Outcome(r.db, <<ok_text>>, NoError, <<>>)
  ELSE IF r.err \in caught THEN Outcome(r.db, <<caught_text>>, NoError, <<>>)
  ELSE Outcome(r.db, <<>>, r.err, <<>>)

\* the `elif command in self.admin_commands and is_admin` branch
admin_command(db, msg, content, command) ==
  LET parts == str_split(content, " ", 2)
  IN  IF Len(parts) < 2
      THEN \* content.split(' ', 2)[1]
           Outcome(db, <<>>, IndexError, <<>>)
      ELSE LET cmd_type == parts[2]
           IN  IF cmd_type = S_textcommand
               THEN IF command = S_add
                    THEN Finish(_add_text_command(db, content), {IntegrityError},
                                T_CommandAdded, T_CommandExists)
                    ELSE Finish(_delete_text_command(db, content), {},
                                T_CommandRemoved, T_CommandRemoved)
               ELSE IF cmd_type = S_rolecommand
               THEN IF command = S_add
                    THEN Finish(_add_role_command(db, content, msg.role_mentions),
                                {IntegrityError}, T_CommandAdded, T_RoleCommandExists)
                    ELSE Finish(_delete_role_command(db, content), {},
                                T_CommandRemoved, T_CommandRemoved)
               ELSE IF py_in(cmd_type, <<S_su, S_admin, S_superuser>>)
               THEN IF command = S_add
                    THEN Finish(_add_admins(db, msg.mentions), {IntegrityError},
                                T_UserAdded, T_AlreadyAdmin)
                    ELSE IF author_is_bootstrap(msg.author)
                         THEN Finish(delete_mentioned_admins(db, msg.mentions), {},
                                     T_UserRemoved, T_UserRemoved)
                         ELSE Finish(_delete_admin(db, msg.author), {},
                                     T_UserRemoved, T_UserRemoved)
               ELSE Outcome(db, <<T_InvalidCommand>>, NoError, <<>>)

\* text_command with `if role_ids is not None` for the `if role_ids` of line 109
text_command_any_role_command(db, msg, command, is_admin) ==
  LET found == find_text_command(db, command, is_admin).ret
      role_ids == find_role_command(db, command).ret
      has_roles == ~role_ids.none
      grants == IF has_roles THEN role_ids.value ELSE <<>>
      response_text == IF ~found.none THEN found.value.response
                       ELSE IF has_roles THEN T_RolesGranted
                       ELSE T_InvalidCommand
  IN  Outcome(db, <<response_text>>, NoError, grants)

\* the `else` branch: a plain invocation
text_command(db, msg, command, is_admin) ==
  LET found == find_text_command(db, command, is_admin).ret
      role_ids == find_role_command(db, command).ret
      has_roles == ~role_ids.none /\ role_ids.value # <<>>
      grants == IF has_roles THEN role_ids.value ELSE <<>>
      response_text == IF ~found.none THEN found.value.response
                       ELSE IF has_roles THEN T_RolesGranted
                       ELSE T_InvalidCommand
  IN  Outcome(db, <<response_text>>, NoError, grants)

\* _parse_command without the `and is_admin` of line 60
_parse_command_for_anyone(db, msg) ==
  LET content == slice_from(msg.content, Len(prefix))
      command == str_lower(str_split(content, " ", 1)[1])
      is_admin == is_user_admin(db, msg.author).ret
  IN  IF command = S_commands
      THEN Outcome(db, <<_list_commands(db, is_admin)>>, NoError, <<>>)
      ELSE IF py_in(command, admin_commands)
      THEN admin_command(db, msg, content, command)
      ELSE text_command(db, msg, command, is_admin)

_parse_command(db, msg) ==
  LET content == slice_from(msg.content, Len(prefix))
      command == str_lower(str_split(content, " ", 1)[1])
      is_admin == is_user_admin(db, msg.author).ret
  IN  IF command = S_commands
      THEN Outcome(db, <<_list_commands(db, is_admin)>>, NoError, <<>>)
      ELSE IF py_in(command, admin_commands) /\ is_admin
      THEN admin_command(db, msg, content, command)
      ELSE text_command(db, msg, command, is_admin)

on_message(db, msg) ==
  IF msg.author = BotUser
  THEN Outcome(db, <<>>, NoError, <<>>)
  ELSE IF startswith(msg.content, prefix)
  THEN _parse_command(db, msg)
  ELSE Outcome(db, <<>>, NoError, <<>>)


(***************************************************************************)
(* The messages the messaging layer delivers.                              *)
(***************************************************************************)
\* 'vip'
N_vip ==
  <<"v", "i", "p">>
\* 'hello'
N_hello ==
  <<"h", "e", "l", "l", "o">>
\* 'command'
S_command ==
  <<"c", "o", "m", "m", "a", "n", "d">>
\* 'hi'
P_hi ==
  <<"h", "i">>
\* '"hi there" admin'
P_quoted_admin ==
  <<"\"", "h", "i", " ", "t", "h", "e", "r", "e", "\"", " ", "a", "d", "m", "i", "n">>
\* 'hi there'
R_hi_there ==
  <<"h", "i", " ", "t", "h", "e", "r", "e">>
\* '""'
P_quotes ==
  <<"\"", "\"">>
\* 'Vip'
N_Vip ==
  <<"V", "i", "p">>

\* the account whose id the store seeds, as discord.py delivers it
Bootstrap == IntId("170045009318510593")
OtherUsers == {IntId("201"), IntId("202")}
Users == {Bootstrap} \cup OtherUsers
RoleIds == {IntId("501"), IntId("502")}

\* the lists of at most n distinct elements of S
DistinctSeqs(S, n) ==
  {s \in UNION {[1..k -> S] : k \in 0..n} : \A i, j \in 1..Len(s) : i # j => s[i] # s[j]}

Verbs == {S_add, S_remove}
AdminAliases == {S_su, S_admin, S_superuser}
Subtypes == {S_textcommand, S_rolecommand, S_command} \cup AdminAliases
Names == {N_vip, S_add}
Payloads == {P_hi, P_quoted_admin}

\* the text of a message: the prefix and words separated by one space each
Line(words) == prefix \o str_join(<<" ">>, words)

NoMessage == [author |-> BotUser, content |-> <<>>, mentions |-> <<>>, role_mentions |-> <<>>]

Msg(author, words, mentions, role_list) ==
  [author |-> author, content |-> Line(words), mentions |-> mentions,
   role_mentions |-> role_list]

\* commands, plain invocations, add/remove with every subtype, with and
\* without a name, with and without a payload
PlainWords ==
  {<<S_commands>>, <<N_hello>>} \cup {<<n>> : n \in Names} \cup {<<v>> : v \in Verbs}
  \cup {<<v, t>> : v \in Verbs, t \in {S_textcommand, S_rolecommand, S_command, S_su, S_superuser}}
  \cup {<<v, S_textcommand, n>> : v \in Verbs, n \in Names}
  \cup {<<v, S_textcommand, n, p>> : v \in Verbs, n \in Names, p \in Payloads}
  \cup {<<S_remove, S_rolecommand, n>> : n \in Names}

Messages ==
  {Msg(a, w, <<>>, <<>>) : a \in Users, w \in PlainWords}
  \cup {Msg(a, <<v, S_admin>>, ms, <<>>) :
          a \in Users, v \in Verbs, ms \in DistinctSeqs(Users, MaxMentions)}
  \cup {Msg(a, <<S_add, S_rolecommand, n>>, <<>>, rs) :
          a \in Users, n \in Names, rs \in DistinctSeqs(RoleIds, MaxRoleMentions)}
  \cup {Msg(BotUser, <<S_commands>>, <<>>, <<>>)}
  \cup {[author |-> Bootstrap, content |-> S_commands, mentions |-> <<>>,
         role_mentions |-> <<>>]}

(***************************************************************************)
(* The state machine.                                                      *)
(***************************************************************************)
RowIdsWithin(db) ==
  /\ \A rc \in db.role_commands : rc.id <= MaxRowId
  /\ \A r \in db.roles : r.id <= MaxRowId

Install(db) ==
  /\ admins' = db.admins
  /\ text_commands' = db.text_commands
  /\ role_commands' = db.role_commands
  /\ roles' = db.roles

Idle == message = NoMessage

\* DiscordClient.__init__ on a new database file
Init ==
  /\ admins = db_init(EmptyDb).admins
  /\ text_commands = db_init(EmptyDb).text_commands
  /\ role_commands = db_init(EmptyDb).role_commands
  /\ roles = db_init(EmptyDb).roles
  /\ message = NoMessage
  /\ sent = <<>>
  /\ raised = NoError
  /\ granted = <<>>
  /\ tasks = <<>>

\* the process is started again on the database file it left
Restart ==
  /\ Idle
  /\ Install(db_init(Db))
  /\ tasks' = <<>>
  /\ UNCHANGED <<message, sent, raised, granted>>

\* on_message(msg), run to its end
OnMessage(msg) ==
  LET out == on_message(Db, msg)
  IN  /\ Idle
      /\ RowIdsWithin(out.db)
      /\ Install(out.db)
      /\ message' = msg
      /\ sent' = out.sent
      /\ raised' = out.raised
      /\ granted' = out.granted
      /\ UNCHANGED tasks

\* the handler's task is over: the client waits for the next event
Return ==
  /\ ~Idle
  /\ message' = NoMessage
  /\ sent' = <<>>
  /\ raised' = NoError
  /\ granted' = <<>>
  /\ UNCHANGED <<store, tasks>>

Next ==
  \/ \E msg \in Messages : OnMessage(msg)
  \/ Return
  \/ Restart

Spec == Init /\ [][Next]_vars

(***************************************************************************)
(* The handler as the event loop runs it.  The client starts one task per  *)
(* message event; a task runs until it awaits a request to the platform    *)
(* (`await message.author.add_roles(role)`, line 112, and                  *)
(* `await message.channel.send(response_text)`, line 118), and while it is *)
(* suspended there the loop runs the other tasks.  A step issues the next  *)
(* request of one task; a task whose send is issued is over.               *)
(***************************************************************************)
Task(msg, role_ids, response_text) ==
  [msg |-> msg, role_ids |-> role_ids, response_text |-> response_text]

RemoveAt(s, i) == SubSeq(s, 1, i - 1) \o SubSeq(s, i + 1, Len(s))

AsyncWords ==
  {<<S_commands>>, <<N_vip>>, <<S_remove, S_rolecommand, N_vip>>,
   <<S_add, S_rolecommand, N_vip>>}

AsyncMessages ==
  {Msg(a, w, <<>>, <<>>) : a \in Users, w \in AsyncWords}
  \cup {Msg(Bootstrap, <<S_add, S_rolecommand, N_vip>>, <<>>, rs) :
          rs \in DistinctSeqs(RoleIds, MaxRoleMentions)}

\* a task starts: on_message up to its first await.  A handler that grants
\* roles is suspended in the first add_roles; any other handler has changed
\* the store and issued its send (or raised) when it first yields.
Dispatch(msg) ==
  LET out == on_message(Db, msg)
  IN  /\ Idle
      /\ RowIdsWithin(out.db)
      /\ Install(out.db)
      /\ message' = msg
      /\ raised' = out.raised
      /\ IF out.granted = <<>>
         THEN /\ sent' = out.sent
              /\ granted' = <<>>
              /\ UNCHANGED tasks
         ELSE /\ Len(tasks) < MaxTasks
              /\ sent' = <<>>
              /\ granted' = <<Head(out.granted)>>
              /\ tasks' = Append(tasks, Task(msg, Tail(out.granted), out.sent[1]))

\* a suspended task goes on: the next turn of the loop of lines 110-112, or
\* after its last turn line 118
Resume(i) ==
  LET task == tasks[i]
  IN  /\ Idle
      /\ message' = task.msg
      /\ raised' = NoError
      /\ IF task.role_ids # <<>>
         THEN /\ granted' = <<Head(task.role_ids)>>
              /\ sent' = <<>>
              /\ tasks' = [tasks EXCEPT ![i].role_ids = Tail(task.role_ids)]
         ELSE /\ granted' = <<>>
              /\ sent' = <<task.response_text>>
              /\ tasks' = RemoveAt(tasks, i)
      /\ UNCHANGED store

NextAsync ==
  \/ \E msg \in AsyncMessages : Dispatch(msg)
  \/ \E i \in 1..Len(tasks) : Resume(i)
  \/ Return

SpecAsync == Init /\ [][NextAsync]_vars

(***************************************************************************)
(* The same machine on the messages about text commands only, with more    *)
(* names and payloads: a name with an upper-case letter, the payloads      *)
(* 'admin' and '""', the subtype command.                                  *)
(***************************************************************************)
TextCommandNames == {N_vip, N_Vip}
TextPayloads == Payloads \cup {S_admin, P_quotes}

TextWords ==
  {<<S_commands>>} \cup {<<n>> : n \in TextCommandNames}
  \cup {<<S_add, t, n, p>> : t \in {S_textcommand, S_command}, n \in TextCommandNames \cup {S_add},
                              p \in TextPayloads}
  \cup {<<S_remove, t, n>> : t \in {S_textcommand, S_command}, n \in TextCommandNames}

TextMessages == {Msg(a, w, <<>>, <<>>) : a \in Users, w \in TextWords}

NextText ==
  \/ \E msg \in TextMessages : OnMessage(msg)
  \/ Return
  \/ Restart

SpecText == Init /\ [][NextText]_vars


(***************************************************************************)
(* Vocabulary of the properties.                                           *)
(***************************************************************************)
\* the names a commands listing shows: its lines that start with '> '
ListedNames(text) ==
  LET lines == str_split(text, "\n", Len(text))
  IN  {slice_from(lines[i], 2) : i \in {k \in 1..Len(lines) : startswith(lines[k], <<">", " ">>)}}

AdminOnlyNames == {r.command_name : r \in {q \in text_commands : q.admin = 1}}
TextNames == {r.command_name : r \in text_commands}
RoleCommandNames == {rc.command_name : rc \in role_commands}

\* msg is the request `<verb> <subtype> ...words` (any mentions)
IsRequest(msg, words) == msg.author # BotUser /\ msg.content = Line(words)

IsAddRoleCommand(msg) == \E n \in Names : IsRequest(msg, <<S_add, S_rolecommand, n>>)
IsRemoveAdmin(msg) == \E t \in AdminAliases : IsRequest(msg, <<S_remove, t>>)

\* C1 (as claimed): an add rolecommand request of an admin that is not answered
\* 'Command added!' leaves role_commands and roles as they were.
C1_AddRoleCommandAllOrNothing ==
  [][(IsAddRoleCommand(message') /\ message'.author \in admins
        /\ sent' # <<T_CommandAdded>>)
       => (role_commands' = role_commands /\ roles' = roles)]_vars

\* C2: a message of a caller who is not an admin when it is handled changes
\* none of admins, text_commands, role_commands, roles.
C2_NonAdminNeverMutates ==
  [][(message' # NoMessage /\ message'.author \notin admins) => UNCHANGED store]_vars

\* C2 witness: a non-admin asked to remove an existing text command and an
\* existing role command was there as well; both are still there.
C2_Witness ==
  /\ IsRequest(message, <<S_remove, S_textcommand, N_vip>>)
  /\ message.author \notin admins
  /\ N_vip \in TextNames
  /\ role_commands # {}
  /\ sent = <<T_InvalidCommand>>

\* C3: remove su|admin|superuser from an admin other than the bootstrap
\* admin removes the caller's own entry and nothing else.
C3_RemoveAdminRemovesCaller ==
  [][(IsRemoveAdmin(message') /\ message'.author # Bootstrap
        /\ message'.author \in admins)
       => (admins' = admins \ {message'.author}
           /\ UNCHANGED <<text_commands, role_commands, roles>>)]_vars

\* C3 witness: the caller mentioned two other admins; they are still admins,
\* the caller is not.
C3_Witness ==
  /\ IsRequest(message, <<S_remove, S_admin>>)
  /\ message.author # Bootstrap
  /\ sent = <<T_UserRemoved>>
  /\ Len(message.mentions) = 2
  /\ Range(message.mentions) \subseteq admins
  /\ message.author \notin admins

\* C4 (as claimed): remove admin from the bootstrap administrator removes
\* every mentioned user, and the caller's entry is not removed in their place.
C4_BootstrapRemovesMentioned ==
  [][(IsRemoveAdmin(message') /\ message'.author = Bootstrap /\ Bootstrap \in admins)
       => (/\ Range(message'.mentions) \cap admins' = {}
           /\ (Bootstrap \notin Range(message'.mentions) => Bootstrap \in admins'))]_vars

\* C5 (as claimed): the bootstrap administrator is an admin in every state.
C5_BootstrapAlwaysAdmin == is_user_admin(Db, Bootstrap).ret

\* C6 (as claimed): add textcommand from an admin with a built-in name or the
\* name of an existing text command leaves text_commands as it was and is not
\* answered 'Command added!'.
C6_AddTextCommandRejected ==
  [][\A n \in Names, p \in Payloads :
       (IsRequest(message', <<S_add, S_textcommand, n, p>>) /\ message'.author \in admins
          /\ (n \in {S_add, S_remove, S_commands} \/ n \in TextNames))
       => (text_commands' = text_commands /\ sent' # <<T_CommandAdded>>)]_vars

IsCommandsRequest == IsRequest(message, <<S_commands>>) /\ Len(sent) = 1

\* C7 (as claimed): the listing for a non-admin shows no admin-only text
\* command name and neither add nor remove; the listing for an admin shows
\* add, remove and every admin-only text command name.
C7_ListingHidesAdminNames ==
  IsCommandsRequest =>
    IF message.author \in admins
    THEN {S_add, S_remove} \cup AdminOnlyNames \subseteq ListedNames(sent[1])
    ELSE ListedNames(sent[1]) \cap ({S_add, S_remove} \cup AdminOnlyNames) = {}

\* C7 (amended): the listing for a non-admin shows an admin-only text command
\* name, add or remove only where a role command has that name; the listing
\* for an admin shows add, remove and every admin-only text command name.
C7_ListingHidesAdminNamesUnlessRoleCommand ==
  IsCommandsRequest =>
    IF message.author \in admins
    THEN {S_add, S_remove} \cup AdminOnlyNames \subseteq ListedNames(sent[1])
    ELSE ListedNames(sent[1]) \cap ({S_add, S_remove} \cup AdminOnlyNames)
           \subseteq RoleCommandNames

\* C7 witness: a non-admin got a listing while an admin-only text command
\* existed that no role command shares its name with, and a role command
\* named add existed.
C7_Witness ==
  /\ IsCommandsRequest
  /\ message.author \notin admins
  /\ AdminOnlyNames \ RoleCommandNames # {}
  /\ S_add \in RoleCommandNames
  /\ S_add \in ListedNames(sent[1])

IsPlainInvocation(msg, n) == IsRequest(msg, <<n>>)

\* C8: a non-admin who invokes the name of an admin-only text command gets
\* 'Invalid command!', or 'Roles granted!' when a role command has that name,
\* never the command's response; and in every store, add_text_command(n, r, a)
\* that succeeds is followed by find_text_command(n, True) = (n, r), and by
\* find_text_command(n, False) = None when a holds.
C8_AdminOnlyHiddenFromNonAdmin ==
  /\ \A n \in AdminOnlyNames :
       (IsPlainInvocation(message, n) /\ message.author \notin admins)
         => \/ sent = <<T_InvalidCommand>>
            \/ sent = <<T_RolesGranted>> /\ n \in RoleCommandNames
  /\ \A n \in Names, r \in {P_hi, R_hi_there}, a \in BOOLEAN :
       LET added == add_text_command(Db, n, r, a)
       IN  added.err = NoError =>
             /\ find_text_command(added.db, n, TRUE).ret
                  = Some([command_name |-> n, response |-> r])
             /\ a => find_text_command(added.db, n, FALSE).ret = None
             /\ ~a => find_text_command(added.db, n, FALSE).ret
                        = Some([command_name |-> n, response |-> r])

\* C8 witness: a non-admin invoked vip while vip was an admin-only text
\* command and no role command.
C8_Witness ==
  /\ IsPlainInvocation(message, N_vip)
  /\ message.author \notin admins
  /\ N_vip \in AdminOnlyNames
  /\ N_vip \notin RoleCommandNames
  /\ sent = <<T_InvalidCommand>>

\* C9: every row of roles refers to a row of role_commands, and after a
\* remove rolecommand that was answered 'Command removed!' the command is
\* not found.
C9_NoOrphanedGrants ==
  /\ \A r \in roles : \E rc \in role_commands : rc.id = r.role_command_id
  /\ \A n \in Names :
       (IsRequest(message, <<S_remove, S_rolecommand, n>>) /\ sent = <<T_CommandRemoved>>)
         => find_role_command(Db, n).ret = None

\* C9 witness: a role command was removed while another one, made after it,
\* keeps its grant.
C9_Witness ==
  /\ \E n \in Names : IsRequest(message, <<S_remove, S_rolecommand, n>>)
  /\ sent = <<T_CommandRemoved>>
  /\ \E rc \in role_commands : rc.id > 1 /\ \E r \in roles : r.role_command_id = rc.id

MalformedWords ==
  {<<v>> : v \in Verbs}
  \cup {<<S_add, S_textcommand>>, <<S_remove, S_textcommand>>}
  \cup {<<S_add, S_textcommand, n>> : n \in Names}
  \cup {<<S_remove, S_textcommand, n, p>> : n \in Names, p \in Payloads}

\* C10 (as claimed): add/remove input of an admin with a wrong token count
\* is answered 'Invalid command!'; the handler does not end with an exception.
C10_MalformedAnsweredInvalid ==
  [][\A w \in MalformedWords :
       (IsRequest(message', w) /\ message'.author \in admins)
       => (sent' = <<T_InvalidCommand>> /\ raised' = NoError)]_vars

\* C11 (as claimed): remove rolecommand from an admin for a name that is no
\* role command is answered, not with 'Command removed!', and leaves the store
\* as it was.
C11_RemoveMissingRoleCommandAnswered ==
  [][\A n \in Names :
       (IsRequest(message', <<S_remove, S_rolecommand, n>>) /\ message'.author \in admins
          /\ n \notin RoleCommandNames)
       => (Len(sent') = 1 /\ sent' # <<T_CommandRemoved>> /\ UNCHANGED store)]_vars

\* the roles rows of the role command named n, in rowid order
GrantsOf(n) ==
  LET rows == rows_by_id({r \in roles : \E rc \in role_commands :
                            rc.command_name = n /\ rc.id = r.role_command_id})
  IN  [i \in 1..Len(rows) |-> rows[i].role_id]

\* the text commands named n that the author of the handled message may see
VisibleTextCommands(n) ==
  {r \in text_commands : r.command_name = n /\ (message.author \in admins \/ r.admin = 0)}

\* C13 (as claimed): a plain invocation of n requests a grant for every role
\* id of the role command n when it exists; the response is the visible text
\* command's response, else 'Roles granted!' when the role command exists,
\* else 'Invalid command!'.
C13_PlainInvocationPrecedence ==
  \A n \in Names \cup Verbs \cup {N_hello} :
    (IsPlainInvocation(message, n) /\ (n \in Verbs => message.author \notin admins))
    => /\ n \in RoleCommandNames => granted = GrantsOf(n)
       /\ sent = <<IF VisibleTextCommands(n) # {}
                   THEN (CHOOSE r \in VisibleTextCommands(n) : TRUE).response
                   ELSE IF n \in RoleCommandNames THEN T_RolesGranted
                   ELSE T_InvalidCommand>>

\* the names a commands listing shows, in the order it shows them (the empty
\* entry that ends a listing without stored commands is no name)
RECURSIVE ListedFrom(_, _)
ListedFrom(lines, i) ==
  IF i > Len(lines) THEN <<>>
  ELSE IF startswith(lines[i], <<">", " ">>) /\ Len(lines[i]) > 2
       THEN <<slice_from(lines[i], 2)>> \o ListedFrom(lines, i + 1)
       ELSE ListedFrom(lines, i + 1)

ListedSeq(text) == ListedFrom(str_split(text, "\n", Len(text)), 1)

\* C14 (as claimed): in a commands listing no name appears twice and the
\* names are in sorted order.
C14_ListingDedupSorted ==
  IsCommandsRequest =>
    LET names == ListedSeq(sent[1])
    IN  /\ \A i, j \in 1..Len(names) : i # j => names[i] # names[j]
        /\ \A i \in 1..(Len(names) - 1) : ~str_less(names[i + 1], names[i])

\* C15 (as claimed): after an add rolecommand request answered 'Command
\* added!' the role command it created has at least one roles row.
C15_RoleCommandHasGrants ==
  \A n \in Names :
    (IsRequest(message, <<S_add, S_rolecommand, n>>) /\ sent = <<T_CommandAdded>>)
    => /\ n \in RoleCommandNames
       /\ GrantsOf(n) # <<>>
       /\ text_command(Db, message, n, FALSE).granted # <<>>

IsAddAdmin(msg) == \E t \in AdminAliases : IsRequest(msg, <<S_add, t>>)

\* C16 (as claimed): an add admin request answered 'That user is already an
\* admin!' leaves admins as it was.
C16_FailedAddAdminChangesNothing ==
  [][(IsAddAdmin(message') /\ sent' = <<T_AlreadyAdmin>>) => admins' = admins]_vars

\* what the handler does with the words `words` sent by the author of msg
SameAuthorOutcome(db, msg, words) == on_message(db, Msg(msg.author, words, <<>>, <<>>))

\* C17 (as claimed): for an admin, add command <name> <response> and remove
\* command <name> change text_commands and answer as add textcommand and
\* remove textcommand do from the same store.
C17_CommandIsAliasOfTextcommand ==
  [][/\ \A n \in TextCommandNames, p \in TextPayloads :
          (IsRequest(message', <<S_add, S_command, n, p>>) /\ message'.author \in admins)
          => LET ref == SameAuthorOutcome(Db, message', <<S_add, S_textcommand, n, p>>)
             IN  text_commands' = ref.db.text_commands /\ sent' = ref.sent
     /\ \A n \in TextCommandNames :
          (IsRequest(message', <<S_remove, S_command, n>>) /\ message'.author \in admins)
          => LET ref == SameAuthorOutcome(Db, message', <<S_remove, S_textcommand, n>>)
             IN  text_commands' = ref.db.text_commands /\ sent' = ref.sent]_vars

\* C18 (as claimed): every stored text command has a non-empty name and a
\* non-empty response.
C18_TextCommandFieldsNonEmpty ==
  \A r \in text_commands : r.command_name # <<>> /\ r.response # <<>>

\* C20 (as claimed): once add textcommand <name> <response> of an admin is
\* answered 'Command added!', an admin who sends exactly <name> gets the
\* response stored for it.
C20_AddedTextCommandInvocable ==
  \A n \in TextCommandNames, p \in TextPayloads :
    (IsRequest(message, <<S_add, S_textcommand, n, p>>) /\ sent = <<T_CommandAdded>>)
    => /\ n \in TextNames
       /\ \A a \in admins :
            \E r \in text_commands :
              /\ r.command_name = n
              /\ on_message(Db, Msg(a, <<n>>, <<>>, <<>>)).sent = <<r.response>>

\* the command token of a message: the first word after the prefix, lower-cased
CommandToken(msg) == str_lower(str_split(slice_from(msg.content, Len(prefix)), " ", 1)[1])

\* a message that reaches the router and whose command token is add or remove
SentVerb(msg) ==
  /\ msg # NoMessage
  /\ msg.author # BotUser
  /\ startswith(msg.content, prefix)
  /\ CommandToken(msg) \in Verbs

\* the handled message has add or remove as its command token and its
\* author is no admin
NonAdminSentVerb == SentVerb(message) /\ message.author \notin admins

\* C19 (as claimed): a message whose command token is add or remove, sent by
\* a caller who is no admin, is answered 'Invalid command!' and requests no
\* role grant.
C19_NonAdminVerbIsInvalid ==
  [][(SentVerb(message') /\ message'.author \notin admins)
       => (sent' = <<T_InvalidCommand>> /\ granted' = <<>>)]_vars

\* C19 (amended): such a message is answered 'Invalid command!' and requests
\* no role grant, unless a role command named like its command token has
\* grants: then those roles are requested and the answer is 'Roles granted!'.
C19_NonAdminVerbIsInvalidUnlessRoleCommand ==
  [][(SentVerb(message') /\ message'.author \notin admins)
       => IF GrantsOf(CommandToken(message')) # <<>>
          THEN sent' = <<T_RolesGranted>> /\ granted' = GrantsOf(CommandToken(message'))
          ELSE sent' = <<T_InvalidCommand>> /\ granted' = <<>>]_vars

\* C19 witness: a caller who is no admin sent an add request of three or more
\* words while a role command named add had grants and a text command existed.
C19_Witness ==
  /\ NonAdminSentVerb
  /\ Len(str_split(message.content, " ", 3)) >= 3
  /\ S_add \in RoleCommandNames
  /\ GrantsOf(S_add) # <<>>
  /\ granted = GrantsOf(S_add)
  /\ TextNames # {}

\* C12: handlers run to completion one after the other: a step that changes
\* the store or sends a response is taken while no task is suspended, or is
\* the oldest suspended task sending its response; and a role is granted
\* only while the role command named by the message exists and holds it.
C12_RunToCompletion ==
  [][/\ (message' # NoMessage /\ (sent' # <<>> \/ store' # store))
          => (tasks = <<>> \/ (tasks # <<>> /\ tasks' = Tail(tasks)))
     /\ (message' # NoMessage /\ granted' # <<>>)
          => \E rc \in role_commands' :
               /\ rc.command_name = CommandToken(message')
               /\ \A i \in 1..Len(granted') :
                    \E r \in roles' : r.role_command_id = rc.id /\ r.role_id = granted'[i]]_vars

====
